---- MODULE Spec2Model ----
(***************************************************************************)
(* gRIP: the FFI layer of src/rust/src/ffi/mod.rs over the handle tables   *)
(* (crate::cell_map::CellMap) and the request queue                        *)
(* (crate::networking_queue::Queue).  The FFI functions are translated     *)
(* from mod.rs; CellMap and Queue are not part of the sources at hand and  *)
(* are modelled from their specification (sections 4.1 and 4.2).           *)
(***************************************************************************)
EXTENDS Integers, Sequences, FiniteSets, TLC

VARIABLES
    Module,     \* static mut MODULE: Option<ModuleStorage>
    tasks,      \* the worker pool: one task per request sent to a responding endpoint
    invoked,    \* the host's view: the handlers invoked so far, in order
    panicked,   \* the process died in an unwrap() of None
    ghost,      \* history: per task the handle returned and how its token went
                \* away; the order in which completions arrived
    last        \* the last FFI call and what it returned

vars == <<Module, tasks, invoked, panicked, ghost, last>>

(***************************** bounds *************************************)
\* requests sent to endpoints that answer (the ones followed individually)
MaxReq == 2
\* the same, over the whole life of the process (SpecLife)
MaxReqLife == 1
\* bodies, option sets, JSON values and requests to answering endpoints created,
\* all together (SpecTables, SpecCopies)
MaxIns == 2

(***************************** constants **********************************)
\* the pending-request threshold of grip_process_request
Threshold == 500
\* the upper clamp of the multiplier in grip_process_request
MultiplierClamp == 1
\* the first id a CellMap hands out
FirstId == 1

\* Option<T>: None is the empty sequence, Some(v) holds v
None == <<>>
Some(v) == <<v>>
\* MODULE = None
NoModule == [is_some |-> FALSE]
EmptyFcn == [x \in {} |-> 0]
Restrict(f, S) == [x \in S |-> f[x]]
Min(a, b) == IF a <= b THEN a ELSE b
Range(s) == {s[i] : i \in DOMAIN s}

\* values of callbacks-per-frame the config file may hold
CallbacksPerFrame == {1, 2}
\* sizes of a burst of requests to a silent endpoint
BurstSizes == {Threshold - 1, 2 * Threshold}
\* what a worker can resolve a request to
Outcomes == {"Ok", "RequestTimeout", "Other", "RequestCancelled"}

(***************************** CellMap ************************************)
\* A CellMap is a counter and the entries id -> item.  The entries are held in
\* two parts: `inner`, one by one, and `run`, a stretch of consecutive ids that
\* all hold the same item (the hundreds of identical tokens of a backlog), which
\* is written out into `inner` as soon as one of its ids is removed.
NoRun == [first |-> 0, count |-> 0, item |-> 0]

InRun(map, id) == map.run.first <= id /\ id < map.run.first + map.run.count

\* the entries as one function
Entries(map) ==
    [id \in DOMAIN map.inner \cup (map.run.first .. (map.run.first + map.run.count - 1)) |->
        IF id \in DOMAIN map.inner THEN map.inner[id] ELSE map.run.item]

CellMap_new == [counter |-> FirstId, inner |-> EmptyFcn, run |-> NoRun]

peek_id(map) == map.counter

\* (mutant) the lowest id that is free is handed out
insert_with_lowest_free_id(map, item) ==
    LET free(i) == i \notin DOMAIN map.inner /\ ~InRun(map, i)
        id == CHOOSE i \in FirstId .. map.counter :
                  free(i) /\ \A k \in FirstId .. (i - 1) : ~free(k)
    IN  [map |-> [map EXCEPT !.counter = IF id = map.counter THEN id + 1 ELSE @,
                             !.inner   = map.inner @@ (id :> item)],
         id  |-> id]

insert_with_unique_id(map, item) ==
    [map |-> [map EXCEPT !.counter = map.counter + 1,
                         !.inner   = map.inner @@ (map.counter :> item)],
     id  |-> map.counter]

\* n inserts of the same item in a row
insert_run(map, item, n) ==
    IF map.run.count = 0
    THEN [map EXCEPT !.counter = map.counter + n,
                     !.run = [first |-> map.counter, count |-> n, item |-> item]]
    ELSE [map EXCEPT !.counter = map.counter + n,
                     !.inner = map.inner @@ [id \in map.counter .. (map.counter + n - 1) |-> item]]

get_with_id(map, id) ==
    IF id \in DOMAIN map.inner THEN Some(map.inner[id])
    ELSE IF InRun(map, id) THEN Some(map.run.item)
    ELSE None

\* (mutant) the value is returned and the entry is left in the table
remove_with_id_keeps(map, id) == [map |-> map, value |-> get_with_id(map, id)]

remove_with_id(map, id) ==
    IF id \in DOMAIN map.inner
    THEN [map   |-> [map EXCEPT !.inner = Restrict(map.inner, DOMAIN map.inner \ {id})],
          value |-> Some(map.inner[id])]
    ELSE IF InRun(map, id)
    THEN [map   |-> [map EXCEPT !.inner = Restrict(Entries(map), DOMAIN Entries(map) \ {id}),
                                !.run = NoRun],
          value |-> Some(map.run.item)]
    ELSE [map |-> map, value |-> None]

clear(map) == [map EXCEPT !.inner = EmptyFcn, !.run = NoRun]

\* the number of entries
len(map) == Cardinality(DOMAIN map.inner) + map.run.count

\* some entry holds item
holds(map, item) ==
    \/ \E id \in DOMAIN map.inner : map.inner[id] = item
    \/ map.run.count > 0 /\ map.run.item = item

(***************************** Queue **************************************)
\* A Queue holds the completion buffer its workers push to.
Queue_new == [responses |-> <<>>]

\* Dropping the Queue drops its completion buffer: a task still at work has
\* nowhere left to report to.
Queue_drop(pool) == [t \in DOMAIN pool |-> [pool[t] EXCEPT !.orphaned = TRUE]]

\* The RequestCancellation of task t is a token naming t; 0 names a request
\* whose exchange never ends (no task is followed for it).
RequestCancellation(t) == t

\* the token of task t is registered in the cancellation table
TokenRegistered(M, t) == holds(M.cancellations_handles, RequestCancellation(t))

\* (mutant) every request ever submitted is counted
number_of_submitted_requests(M) == peek_id(M.cancellations_handles) - FirstId

number_of_pending_requests(M) == len(M.cancellations_handles)

\* RequestOptions::default(): no header, no timeout
RequestOptions_default == [headers |-> EmptyFcn, timeout |-> None]

\* send_request: hand the request and its completion closure to the pool.
\* w is the world: a record of the variables' values.
send_request(w, responds, request, closure) ==
    IF responds
    THEN [w |-> [w EXCEPT !.tasks = Append(w.tasks,
                        [request |-> request, closure |-> closure,
                         status |-> "running", orphaned |-> FALSE]),
                    !.ghost.req = Append(w.ghost.req,
                        [handle |-> 0, cancel |-> "no", shutdown |-> FALSE,
                         body_handle |-> -1, options_handle |-> -1,
                         event |-> "none"])],
          cancellation |-> RequestCancellation(Len(w.tasks) + 1)]
    ELSE [w |-> [w EXCEPT !.ghost.silent = @ + 1],
          cancellation |-> RequestCancellation(0)]

(***************************** FFI ****************************************)
\* (mutant) the error is not caught: the process aborts
FfiAbort(w, fn) ==
    [w EXCEPT !.panicked = TRUE, !.last = [fn |-> fn, ret |-> 0, logged |-> FALSE]]

\* try_and_log_ffi!: the error is logged and the function returns 0
FfiError(w, fn) == [w EXCEPT !.last = [fn |-> fn, ret |-> 0, logged |-> TRUE]]

\* the record of a call, with the handle it was given
Of(call, h) == [fn |-> call.fn, ret |-> call.ret, logged |-> call.logged, arg |-> h]

\* get_module() / get_module_mut(): MODULE.as_ref().unwrap()
Unwrapped(w) == w.Module.is_some
Panic(w, fn) == [w EXCEPT !.panicked = TRUE, !.last = [fn |-> fn, ret |-> 0, logged |-> FALSE]]

\* The file at config_file_path: whether it can be opened and parsed, whether it
\* has a [queue] section, and what that section holds under each key: nothing
\* (None), or a text, which parses as a usize when it is not negative.
ConfigFile(file, section, threads, callbacks, delay) ==
    [file |-> file, queue_section |-> section, worker_thread_count |-> threads,
     callbacks_per_frame |-> callbacks, microseconds_delay_between_attempts |-> delay]

\* the configuration files that hold everything
Configs ==
    {ConfigFile("OK", TRUE, Some(2), Some(c), Some(100)) : c \in CallbacksPerFrame}

\* the texts a key may hold: one that is no usize, and a usize
KeyTexts == {None, Some(-1), Some(1)}

\* a complete file, and every file with one thing missing or unparseable
ConfigsAll ==
    Configs
    \cup {ConfigFile(f, TRUE, Some(2), Some(1), Some(100)) : f \in {"ABSENT", "UNPARSEABLE"}}
    \cup {ConfigFile("OK", FALSE, None, None, None)}
    \cup {ConfigFile("OK", TRUE, k, Some(1), Some(100)) : k \in KeyTexts}
    \cup {ConfigFile("OK", TRUE, Some(2), k, Some(100)) : k \in KeyTexts}
    \cup {ConfigFile("OK", TRUE, Some(2), Some(1), k) : k \in KeyTexts}

\* .get(key).unwrap().parse().unwrap() comes back with a usize
Parses(text) == text # None /\ text[1] >= 0

grip_init(w, config) ==
    IF w.Module.is_some
    THEN w
    ELSE IF config.file # "OK" THEN Panic(w, "grip_init")
    ELSE IF ~config.queue_section THEN Panic(w, "grip_init")
    ELSE IF ~Parses(config.callbacks_per_frame) THEN Panic(w, "grip_init")
    ELSE IF ~Parses(config.microseconds_delay_between_attempts) THEN Panic(w, "grip_init")
    ELSE [w EXCEPT
            !.ghost.silent = 0,
            !.Module = [is_some               |-> TRUE,
                        global_queue          |-> Queue_new,
                        cancellations_handles |-> CellMap_new,
                        current_response      |-> None,
                        bodies_handles        |-> CellMap_new,
                        json_handles          |-> CellMap_new,
                        options_handles       |-> CellMap_new,
                        callbacks_per_frame   |-> config.callbacks_per_frame[1],
                        microseconds_delay_between_attempts |->
                            config.microseconds_delay_between_attempts[1]],
            !.last = [fn |-> "grip_init", ret |-> 0, logged |-> FALSE]]

\* ghost: the tasks whose token grip_deinit finds registered
ShutDown(w) ==
    [t \in DOMAIN w.ghost.req |->
        IF TokenRegistered(w.Module, t)
        THEN [w.ghost.req[t] EXCEPT !.shutdown = TRUE]
        ELSE w.ghost.req[t]]

\* (mutant) the guard is inverted: an initialised module is left as it is
grip_deinit_inverted(w) ==
    IF w.Module.is_some
    THEN [w EXCEPT !.ghost.req = ShutDown(w),
                   !.last = [fn |-> "grip_deinit", ret |-> 0, logged |-> FALSE]]
    ELSE [w EXCEPT !.last = [fn |-> "grip_deinit", ret |-> 0, logged |-> FALSE]]

grip_deinit(w) ==
    IF w.Module.is_some
    THEN LET cleared == [w EXCEPT !.Module.cancellations_handles = clear(@),
                                  !.ghost.req = ShutDown(w)]
         IN  [cleared EXCEPT !.Module = NoModule,
                             !.tasks = Queue_drop(@),
                             !.last = [fn |-> "grip_deinit", ret |-> 0, logged |-> FALSE]]
    ELSE [w EXCEPT !.Module = NoModule,
                   !.last = [fn |-> "grip_deinit", ret |-> 0, logged |-> FALSE]]

\* what the host can pass as a URI
URIs == {"NULL", "NOT_UTF8", "MALFORMED", "VALID"}

\* (mutant) the id is peeked one insert too late
next_cancellation_id_late(M) == peek_id(M.cancellations_handles) + 1

\* let next_cancellation_id = get_module().cancellations_handles.peek_id();
next_cancellation_id(M) == peek_id(M.cancellations_handles)

\* static ref EMPTY_VEC: Vec<u8> = vec![]
EMPTY_VEC == ""

\* (mutant) a handle that is not in the table stands for the empty body
body_or_empty_lenient(M, body_handle) ==
    IF get_with_id(M.bodies_handles, body_handle) # None
    THEN get_with_id(M.bodies_handles, body_handle)
    ELSE Some(EMPTY_VEC)

\* bodies_handles.get_with_id(body_handle).or_else(|| if body_handle == -1 {..})
body_or_empty(M, body_handle) ==
    IF get_with_id(M.bodies_handles, body_handle) # None
    THEN get_with_id(M.bodies_handles, body_handle)
    ELSE IF body_handle = -1 THEN Some(EMPTY_VEC) ELSE None

\* options_handles.get_with_id(options_handle).or_else(|| if options_handle == -1 {..})
options_or_default(M, options_handle) ==
    IF get_with_id(M.options_handles, options_handle) # None
    THEN get_with_id(M.options_handles, options_handle)
    ELSE IF options_handle = -1 THEN Some(RequestOptions_default) ELSE None

\* (mutant) the id is returned, the token is not inserted
grip_request_unregistered(w, args) ==
    IF ~Unwrapped(w) THEN Panic(w, "grip_request")
    ELSE IF args.request_type \notin 0..3 THEN FfiError(w, "grip_request")
    ELSE IF args.uri \in {"NULL", "NOT_UTF8"} THEN FfiError(w, "grip_request")
    ELSE IF body_or_empty(w.Module, args.body_handle) = None
         THEN FfiError(w, "grip_request")
    ELSE IF options_or_default(w.Module, args.options_handle) = None
         THEN FfiError(w, "grip_request")
    ELSE IF args.uri = "MALFORMED" THEN FfiError(w, "grip_request")
    ELSE LET body    == body_or_empty(w.Module, args.body_handle)
             options == options_or_default(w.Module, args.options_handle)
             request == [http_type |-> args.request_type, body |-> body[1],
                         options |-> options[1]]
             closure == [next_cancellation_id |-> next_cancellation_id(w.Module),
                         handler |-> IF args.handler = "NULL" THEN None
                                     ELSE Some(args.handler)]
             sent    == send_request(w, args.responds, request, closure)
             t       == sent.cancellation
             w2      == [sent.w EXCEPT !.Module.cancellations_handles.counter = @ + 1,
                                       !.last = [fn |-> "grip_request",
                                                 ret |-> closure.next_cancellation_id,
                                                 logged |-> FALSE]]
         IN  IF t = 0 THEN w2
             ELSE [w2 EXCEPT !.ghost.req[t].handle = closure.next_cancellation_id,
                             !.ghost.req[t].body_handle = args.body_handle,
                             !.ghost.req[t].options_handle = args.options_handle]

\* args: [request_type, uri, body_handle, options_handle, handler, responds]
grip_request(w, args) ==
    IF ~Unwrapped(w) THEN Panic(w, "grip_request")
    ELSE IF args.request_type \notin 0..3 THEN FfiError(w, "grip_request")
    ELSE IF args.uri \in {"NULL", "NOT_UTF8"} THEN FfiError(w, "grip_request")
    ELSE IF body_or_empty(w.Module, args.body_handle) = None
         THEN FfiError(w, "grip_request")
    ELSE IF options_or_default(w.Module, args.options_handle) = None
         THEN FfiError(w, "grip_request")
    ELSE IF args.uri = "MALFORMED" THEN FfiError(w, "grip_request")
    ELSE LET body    == body_or_empty(w.Module, args.body_handle)
             options == options_or_default(w.Module, args.options_handle)
             request == [http_type |-> args.request_type, body |-> body[1],
                         options |-> options[1]]
             closure == [next_cancellation_id |-> next_cancellation_id(w.Module),
                         handler |-> IF args.handler = "NULL" THEN None
                                     ELSE Some(args.handler)]
             sent    == send_request(w, args.responds, request, closure)
             ins     == insert_with_unique_id(sent.w.Module.cancellations_handles,
                                              sent.cancellation)
             t       == sent.cancellation
             w2      == [sent.w EXCEPT !.Module.cancellations_handles = ins.map,
                                       !.last = [fn |-> "grip_request", ret |-> ins.id,
                                                 logged |-> FALSE]]
         IN  IF t = 0 THEN w2
             ELSE [w2 EXCEPT !.ghost.req[t].handle = ins.id,
                             !.ghost.req[t].body_handle = args.body_handle,
                             !.ghost.req[t].options_handle = args.options_handle]

\* ghost: when a found cancel took the token of task t away
CancelPhase(w, t) ==
    IF t \in Range(w.invoked) THEN "during_delivery"
    ELSE IF w.tasks[t].status = "running" THEN "before_resolve"
    ELSE "before_delivery"

\* (mutant) found is reported, the token is left in the table
grip_cancel_request_keeps(w, cancellation) ==
    IF ~Unwrapped(w) THEN Panic(w, "grip_cancel_request")
    ELSE LET rem == remove_with_id(w.Module.cancellations_handles, cancellation)
         IN  IF rem.value = None
             THEN [FfiError(w, "grip_cancel_request") EXCEPT !.last = Of(@, cancellation)]
             ELSE LET w2 == [w EXCEPT !.last = [fn |-> "grip_cancel_request", ret |-> 1,
                                                logged |-> FALSE, arg |-> cancellation]]
                      t  == rem.value[1]
                  IN  IF t = 0 THEN w2
                      ELSE [w2 EXCEPT !.ghost.req[t].cancel = CancelPhase(w, t)]

\* (mutant) a handle that is not in the table is reported as found
grip_cancel_request_lenient(w, cancellation) ==
    IF ~Unwrapped(w) THEN Panic(w, "grip_cancel_request")
    ELSE LET rem == remove_with_id(w.Module.cancellations_handles, cancellation)
             w2  == [w EXCEPT !.Module.cancellations_handles = rem.map,
                              !.last = [fn |-> "grip_cancel_request", ret |-> 1,
                                        logged |-> FALSE, arg |-> cancellation]]
         IN  IF rem.value = None \/ rem.value[1] = 0 THEN w2
             ELSE [w2 EXCEPT !.ghost.req[rem.value[1]].cancel = CancelPhase(w, rem.value[1])]

grip_cancel_request(w, cancellation) ==
    IF ~Unwrapped(w) THEN Panic(w, "grip_cancel_request")
    ELSE LET rem == remove_with_id(w.Module.cancellations_handles, cancellation)
         IN  IF rem.value = None
             THEN [FfiError(w, "grip_cancel_request") EXCEPT !.last = Of(@, cancellation)]
             ELSE LET w2 == [w EXCEPT !.Module.cancellations_handles = rem.map,
                                      !.last = [fn |-> "grip_cancel_request", ret |-> 1,
                                                logged |-> FALSE, arg |-> cancellation]]
                      t  == rem.value[1]
                  IN  IF t = 0 THEN w2
                      ELSE [w2 EXCEPT !.ghost.req[t].cancel = CancelPhase(w, t)]

grip_is_request_active(w, request_id) ==
    IF ~Unwrapped(w) THEN Panic(w, "grip_is_request_active")
    ELSE [w EXCEPT !.last =
            [fn |-> "grip_is_request_active",
             ret |-> IF get_with_id(w.Module.cancellations_handles, request_id) # None
                     THEN 1 ELSE 0,
             logged |-> FALSE]]

\* what try_and_log_ffi! leaves behind when the value is there
FfiOk(w, fn, ret) == [w EXCEPT !.last = [fn |-> fn, ret |-> ret, logged |-> FALSE]]

grip_destroy_body(w, body) ==
    IF ~Unwrapped(w) THEN Panic(w, "grip_destroy_body")
    ELSE LET rem == remove_with_id(w.Module.bodies_handles, body)
         IN  IF rem.value = None
             THEN FfiError(w, "grip_destroy_body")
             ELSE FfiOk([w EXCEPT !.Module.bodies_handles = rem.map],
                        "grip_destroy_body", 1)

\* the strings the host passes: a null pointer, or the bytes up to the NUL
BodyStrings == {"NULL", "x"}

\* (mutant) the position of the new body among the live ones is returned
grip_body_from_string_position(w, str) ==
    IF ~Unwrapped(w) THEN Panic(w, "grip_body_from_string")
    ELSE IF str = "NULL" THEN FfiError(w, "grip_body_from_string")
    ELSE LET ins == insert_with_unique_id(w.Module.bodies_handles, str)
         IN  FfiOk([w EXCEPT !.Module.bodies_handles = ins.map],
                   "grip_body_from_string", len(w.Module.bodies_handles))

grip_body_from_string(w, str) ==
    IF ~Unwrapped(w) THEN Panic(w, "grip_body_from_string")
    ELSE IF str = "NULL" THEN FfiError(w, "grip_body_from_string")
    ELSE LET ins == insert_with_unique_id(w.Module.bodies_handles, str)
         IN  FfiOk([w EXCEPT !.Module.bodies_handles = ins.map],
                   "grip_body_from_string", ins.id)

\* (mutant) the value is removed from the table of bodies
grip_destroy_json_value_of_bodies(w, json_value) ==
    IF ~Unwrapped(w) THEN Panic(w, "grip_destroy_json_value")
    ELSE LET rem == remove_with_id(w.Module.bodies_handles, json_value)
         IN  IF rem.value = None
             THEN FfiError(w, "grip_destroy_json_value")
             ELSE FfiOk([w EXCEPT !.Module.bodies_handles = rem.map],
                        "grip_destroy_json_value", 1)

grip_destroy_json_value(w, json_value) ==
    IF ~Unwrapped(w) THEN Panic(w, "grip_destroy_json_value")
    ELSE LET rem == remove_with_id(w.Module.json_handles, json_value)
         IN  IF rem.value = None
             THEN FfiError(w, "grip_destroy_json_value")
             ELSE FfiOk([w EXCEPT !.Module.json_handles = rem.map],
                        "grip_destroy_json_value", 1)

\* json!({})
grip_json_init_object(w) ==
    IF ~Unwrapped(w) THEN Panic(w, "grip_json_init_object")
    ELSE LET ins == insert_with_unique_id(w.Module.json_handles, "{}")
         IN  FfiOk([w EXCEPT !.Module.json_handles = ins.map],
                   "grip_json_init_object", ins.id)

\* the timeouts the host passes, in seconds: invalid, "none", and a duration
Timeouts == {-2, -1, 1}

\* RequestOptions::new(HeaderMap::default(), timeout)
RequestOptions_new(headers, timeout) == [headers |-> headers, timeout |-> timeout]

grip_create_default_options(w, timeout) ==
    IF ~Unwrapped(w) THEN Panic(w, "grip_create_default_options")
    ELSE IF timeout # -1 /\ timeout < 0
         THEN FfiError(w, "grip_create_default_options")
    ELSE LET duration == IF timeout = -1 THEN None ELSE Some(timeout * 1000)
             ins == insert_with_unique_id(w.Module.options_handles,
                        RequestOptions_new(EmptyFcn, duration))
         IN  FfiOk([w EXCEPT !.Module.options_handles = ins.map],
                   "grip_create_default_options", ins.id)

grip_destroy_options(w, options_handle) ==
    IF ~Unwrapped(w) THEN Panic(w, "grip_destroy_options")
    ELSE LET rem == remove_with_id(w.Module.options_handles, options_handle)
         IN  IF rem.value = None
             THEN FfiError(w, "grip_destroy_options")
             ELSE FfiOk([w EXCEPT !.Module.options_handles = rem.map],
                        "grip_destroy_options", 1)

\* header names and values the host passes
HeaderNames == {"NOT_UTF8", "h"}
HeaderValues == {"NOT_UTF8", "REJECTED", "v1", "v2"}

\* A HeaderMap holds, under each name, the values of that name in order.
\* (mutant) HeaderMap::append: the value is added to the values of the name
HeaderMap_append(headers, name, value) ==
    [n \in DOMAIN headers \cup {name} |->
        IF n # name THEN headers[n]
        ELSE IF n \in DOMAIN headers THEN Append(headers[n], value) ELSE <<value>>]

\* HeaderMap::insert: the value is set under the name, the older values of that
\* name are removed
HeaderMap_insert(headers, name, value) ==
    [n \in DOMAIN headers \cup {name} |-> IF n = name THEN <<value>> ELSE headers[n]]

\* get_mut_with_id(id) and a write through the reference
set_with_id(map, id, item) == [map EXCEPT !.inner[id] = item]

grip_options_add_header(w, options_handle, header_name, header_value) ==
    IF ~Unwrapped(w) THEN Panic(w, "grip_options_add_header")
    ELSE IF get_with_id(w.Module.options_handles, options_handle) = None
         THEN FfiError(w, "grip_options_add_header")
    ELSE IF header_name = "NOT_UTF8" THEN FfiError(w, "grip_options_add_header")
    ELSE IF header_value = "NOT_UTF8" THEN FfiError(w, "grip_options_add_header")
    ELSE IF header_value = "REJECTED" THEN FfiError(w, "grip_options_add_header")
    ELSE LET option == get_with_id(w.Module.options_handles, options_handle)[1]
             changed == [option EXCEPT !.headers = HeaderMap_insert(@, header_name, header_value)]
         IN  FfiOk([w EXCEPT !.Module.options_handles =
                        set_with_id(@, options_handle, changed)],
                   "grip_options_add_header", 1)

\* the host script run by a handler: it returns at once, or calls
\* grip_cancel_request first
HandlerScripts(w) ==
    {[op |-> "return", h |-> 0]} \cup
    {[op |-> "cancel", h |-> g.handle] : g \in Range(w.ghost.req)}

\* the Err arm of grip_get_response_state's match, by e.kind()
response_state(response) ==
    CASE response = "RequestCancelled" -> 1
      [] response = "RequestTimeout"   -> 4
      [] response = "Ok"               -> 3
      [] OTHER                         -> 2

grip_get_response_state(w) ==
    IF ~Unwrapped(w) THEN Panic(w, "grip_get_response_state")
    ELSE IF w.Module.current_response = None
         THEN FfiError(w, "grip_get_response_state")
    ELSE FfiOk(w, "grip_get_response_state",
               response_state(w.Module.current_response[1]))

\* what the host passes to grip_request
GoodRequest ==
    [request_type |-> 1, uri |-> "VALID", body_handle |-> -1, options_handle |-> -1,
     handler |-> "fn", responds |-> TRUE]

\* the script of a handler that only returns
JustReturn == [op |-> "return", h |-> 0]

RECURSIVE grip_process_request(_, _)

\* what the script of a handler calls: nothing, grip_cancel_request,
\* grip_request, or grip_process_request (a tick from inside the handler, whose
\* own handlers only return)
script_call(w, script) ==
    CASE script.op = "cancel" -> grip_cancel_request(w, script.h)
      [] script.op = "submit" -> grip_request(w, GoodRequest)
      [] script.op = "tick"   ->
            grip_process_request(w, [i \in 1 .. w.Module.callbacks_per_frame |-> JustReturn])
      [] OTHER                -> w

\* handler.unwrap()(forward_id, user_data): the host's handler for task t; it
\* asks for the response state and whether its own request is active, does what
\* its script says, and asks for the response state again before it returns;
\* cancel_own is what a grip_cancel_request of its own handle returned, if the
\* script made one
handler(w, t, script) ==
    LET w1 == [w EXCEPT !.invoked = Append(@, t)]
        w2 == script_call(w1, script)
        w3 == IF script.op = "tick" /\ ~w2.panicked
              THEN [w2 EXCEPT !.ghost.seen = w1.ghost.seen \o w2.last.seen]
              ELSE w2
    IN  [w3 EXCEPT !.ghost.seen = Append(@,
            [task   |-> t,
             state  |-> grip_get_response_state(w).last.ret,
             active |-> grip_is_request_active(
                            w, w.tasks[t].closure.next_cancellation_id).last.ret,
             cancel_own |->
                 IF script.op = "cancel" /\
                    script.h = w.tasks[t].closure.next_cancellation_id
                 THEN Some(w2.last.ret) ELSE None,
             state_end |-> grip_get_response_state(w2).last.ret])]

\* (mutant) the closure calls the handler twice
completion_twice(w, t, response, script) ==
    LET w1 == [w EXCEPT !.Module.current_response = Some(response)]
        w2 == handler(handler(w1, t, script), t, script)
        w3 == [w2 EXCEPT !.Module.cancellations_handles =
                   remove_with_id(@, w.tasks[t].closure.next_cancellation_id).map]
    IN  IF w.tasks[t].closure.handler = None
        THEN Panic(w1, "grip_process_request")
        ELSE [w3 EXCEPT !.Module.current_response = None]

\* (mutant) the token is removed before the handler is called
completion_token_first(w, t, response, script) ==
    LET w1 == [w EXCEPT !.Module.current_response = Some(response),
                        !.Module.cancellations_handles =
                            remove_with_id(@, w.tasks[t].closure.next_cancellation_id).map]
        w2 == handler(w1, t, script)
    IN  IF w.tasks[t].closure.handler = None
        THEN Panic(w1, "grip_process_request")
        ELSE [w2 EXCEPT !.Module.current_response = None]

\* (mutant) a request without handler is completed without a call
completion_checks_handler(w, t, response, script) ==
    LET w1 == [w EXCEPT !.Module.current_response = Some(response)]
        w2 == IF w.tasks[t].closure.handler = None THEN w1 ELSE handler(w1, t, script)
        w3 == [w2 EXCEPT !.Module.cancellations_handles =
                   remove_with_id(@, w.tasks[t].closure.next_cancellation_id).map]
    IN  [w3 EXCEPT !.Module.current_response = None]

\* (mutant) the closure puts back the response that was current when it was called
completion_restores(w, t, response, script) ==
    LET w1 == [w EXCEPT !.Module.current_response = Some(response)]
        w2 == handler(w1, t, script)
        w3 == [w2 EXCEPT !.Module.cancellations_handles =
                   remove_with_id(@, w.tasks[t].closure.next_cancellation_id).map]
    IN  IF w.tasks[t].closure.handler = None
        THEN Panic(w1, "grip_process_request")
        ELSE [w3 EXCEPT !.Module.current_response = w.Module.current_response]

\* (mutant) the closure removes the newest token of the table
completion_removes_newest(w, t, response, script) ==
    LET w1 == [w EXCEPT !.Module.current_response = Some(response)]
        w2 == handler(w1, t, script)
        w3 == [w2 EXCEPT !.Module.cancellations_handles =
                   remove_with_id(@, peek_id(@) - 1).map]
    IN  IF w.tasks[t].closure.handler = None
        THEN Panic(w1, "grip_process_request")
        ELSE [w3 EXCEPT !.Module.current_response = None]

\* the completion closure grip_request hands to send_request; handler.unwrap()
\* panics when the host passed no handler
completion(w, t, response, script) ==
    LET w1 == [w EXCEPT !.Module.current_response = Some(response)]
        w2 == handler(w1, t, script)
        w3 == [w2 EXCEPT !.Module.cancellations_handles =
                   remove_with_id(@, w.tasks[t].closure.next_cancellation_id).map]
    IN  IF w.tasks[t].closure.handler = None
        THEN Panic(w1, "grip_process_request")
        ELSE [w3 EXCEPT !.Module.current_response = None]

\* (mutant) the limit is ignored: every buffered record is popped
RECURSIVE execute_queue_unlimited(_, _, _)
execute_queue_unlimited(w, limit, scripts) ==
    IF w.panicked \/ w.Module.global_queue.responses = <<>>
    THEN w
    ELSE LET rec    == Head(w.Module.global_queue.responses)
             popped == [w EXCEPT !.Module.global_queue.responses = Tail(@)]
             script == IF scripts = <<>> THEN [op |-> "return", h |-> 0] ELSE Head(scripts)
             rest   == IF scripts = <<>> THEN <<>> ELSE Tail(scripts)
         IN  IF TokenRegistered(popped.Module, rec.task)
             THEN execute_queue_unlimited(
                      completion(popped, rec.task, rec.outcome, script), limit, rest)
             ELSE execute_queue_unlimited(popped, limit, rest)

\* (mutant) the newest record is popped first
RECURSIVE execute_queue_lifo(_, _, _)
execute_queue_lifo(w, limit, scripts) ==
    IF w.panicked \/ limit = 0 \/ w.Module.global_queue.responses = <<>>
    THEN w
    ELSE LET q      == w.Module.global_queue.responses
             rec    == q[Len(q)]
             popped == [w EXCEPT !.Module.global_queue.responses = SubSeq(q, 1, Len(q) - 1)]
         IN  IF TokenRegistered(popped.Module, rec.task)
             THEN execute_queue_lifo(
                      completion(popped, rec.task, rec.outcome, Head(scripts)),
                      limit - 1, Tail(scripts))
             ELSE execute_queue_lifo(popped, limit - 1, Tail(scripts))

\* (mutant) a record is delivered to its closure whether its token is registered
\* or not
RECURSIVE execute_queue_ungated(_, _, _)
execute_queue_ungated(w, limit, scripts) ==
    IF w.panicked \/ limit = 0 \/ w.Module.global_queue.responses = <<>>
    THEN w
    ELSE LET rec    == Head(w.Module.global_queue.responses)
             popped == [w EXCEPT !.Module.global_queue.responses = Tail(@)]
         IN  execute_queue_ungated(
                 completion(popped, rec.task, rec.outcome, Head(scripts)),
                 limit - 1, Tail(scripts))

\* execute_queue_with_limit: pop up to `limit` completion records, oldest first;
\* a record whose token is still registered is delivered to its closure, one
\* whose token is gone is dropped; a panic in a closure ends the drain.
\* scripts[i] is what the i-th handler does.
RECURSIVE execute_queue_with_limit(_, _, _)
execute_queue_with_limit(w, limit, scripts) ==
    IF w.panicked \/ limit = 0 \/ w.Module.global_queue.responses = <<>>
    THEN w
    ELSE LET rec    == Head(w.Module.global_queue.responses)
             popped == [w EXCEPT !.Module.global_queue.responses = Tail(@)]
         IN  IF TokenRegistered(popped.Module, rec.task)
             THEN execute_queue_with_limit(
                      completion(popped, rec.task, rec.outcome, Head(scripts)),
                      limit - 1, Tail(scripts))
             ELSE execute_queue_with_limit(popped, limit - 1, Tail(scripts))

Max(a, b) == IF a >= b THEN a ELSE b

\* (mutant) max in place of min
multiplier_max(M) == Max(number_of_pending_requests(M) \div Threshold, MultiplierClamp)

\* let multiplier = std::cmp::min(number_of_pending_requests() / 500, 1);
multiplier(M) == Min(number_of_pending_requests(M) \div Threshold, MultiplierClamp)

\* callbacks_per_frame * multiplier
drain_limit(M) == M.callbacks_per_frame * multiplier(M)

\* ghost: what ended an exchange is kept while its record waits in the buffer, and
\* what the handlers saw is kept in the record of the tick
Forget(w) ==
    [w EXCEPT !.ghost.seen = <<>>,
              !.ghost.req = [t \in DOMAIN @ |->
                  IF \E i \in DOMAIN w.Module.global_queue.responses :
                         w.Module.global_queue.responses[i].task = t
                  THEN @[t] ELSE [@[t] EXCEPT !.event = "none"]]]

\* what ends the exchange of a worker: the server's response, the timeout, a
\* transport failure, or the cancellation it notices
Events == {"responded", "timed_out", "failed"}

\* (mutant) a response that comes after the timeout still counts
resolve_late(event) ==
    CASE event \in {"responded", "timed_out"} -> "Ok"
      [] event = "failed"    -> "Other"
      [] event = "cancelled" -> "RequestCancelled"

\* the Outcome a worker resolves its request to
resolve(event) ==
    CASE event = "responded" -> "Ok"
      [] event = "timed_out" -> "RequestTimeout"
      [] event = "failed"    -> "Other"
      [] event = "cancelled" -> "RequestCancelled"

\* (mutant) the worker runs the completion closure itself
worker_finish_delivers(w, t, event) ==
    IF ~w.tasks[t].orphaned /\ w.Module.is_some
    THEN completion([w EXCEPT !.tasks[t].status = "finished",
                              !.ghost.arrived = Append(@, t)],
                    t, resolve(event), [op |-> "return", h |-> 0])
    ELSE [w EXCEPT !.tasks[t].status = "lost"]

\* a worker resolves its request and pushes the record to the completion buffer of
\* its queue, if that queue still exists
worker_finish(w, t, event) ==
    IF ~w.tasks[t].orphaned
    THEN [w EXCEPT !.tasks[t].status = "finished",
                   !.Module.global_queue.responses =
                        Append(@, [task |-> t, outcome |-> resolve(event)]),
                   !.ghost.arrived = Append(@, t),
                   !.ghost.req[t].event = event]
    ELSE [w EXCEPT !.tasks[t].status = "lost"]

\* (mutant) with nothing in the buffer the tick waits for a worker to finish
grip_process_request_waits(w, scripts) ==
    IF ~Unwrapped(w) THEN Panic(w, "grip_process_request")
    ELSE LET running == {t \in DOMAIN w.tasks : w.tasks[t].status = "running"}
             w1 == IF w.Module.global_queue.responses = <<>> /\ running # {}
                   THEN worker_finish(w, CHOOSE t \in running : TRUE, "responded")
                   ELSE w
             w2 == execute_queue_with_limit(w1, drain_limit(w.Module), scripts)
         IN  IF w2.panicked THEN w2
             ELSE
             [Forget(w2) EXCEPT !.last = [fn |-> "grip_process_request", ret |-> 0,
                                  seen       |-> w2.ghost.seen,
                                  popped     |-> SubSeq(w.Module.global_queue.responses, 1,
                                                    Len(w.Module.global_queue.responses) -
                                                    Len(w2.Module.global_queue.responses)),
                                  logged     |-> FALSE,
                                  pending    |-> number_of_pending_requests(w.Module),
                                  ready      |-> Len(w.Module.global_queue.responses),
                                  multiplier |-> multiplier(w.Module),
                                  limit      |-> drain_limit(w.Module),
                                  warned     |-> multiplier(w.Module) > 1,
                                  calls      |-> Len(w2.invoked) - Len(w.invoked)]]

grip_process_request(w, scripts) ==
    IF ~Unwrapped(w) THEN Panic(w, "grip_process_request")
    ELSE LET w2 == execute_queue_with_limit(w, drain_limit(w.Module), scripts)
         IN  IF w2.panicked THEN w2
             ELSE
             [Forget(w2) EXCEPT !.last = [fn |-> "grip_process_request", ret |-> 0,
                                  seen       |-> w2.ghost.seen,
                                  popped     |-> SubSeq(w.Module.global_queue.responses, 1,
                                                    Len(w.Module.global_queue.responses) -
                                                    Len(w2.Module.global_queue.responses)),
                                  logged     |-> FALSE,
                                  pending    |-> number_of_pending_requests(w.Module),
                                  ready      |-> Len(w.Module.global_queue.responses),
                                  multiplier |-> multiplier(w.Module),
                                  limit      |-> drain_limit(w.Module),
                                  warned     |-> multiplier(w.Module) > 1,
                                  calls      |-> Len(w2.invoked) - Len(w.invoked)]]

\* a request to an endpoint that never answers
SilentRequest ==
    [request_type |-> 0, uri |-> "VALID", body_handle |-> -1, options_handle |-> -1,
     handler |-> "fn", responds |-> FALSE]

\* n calls of grip_request, one after the other
RECURSIVE repeat_request(_, _, _)
repeat_request(w, args, n) ==
    IF n = 0 THEN w ELSE repeat_request(grip_request(w, args), args, n - 1)

\* The host submits n >= 1 requests in a row to an endpoint that never answers:
\* repeat_request(w, SilentRequest, n), with the n tokens inserted as one run.
request_burst(w, n) ==
    IF ~Unwrapped(w) THEN Panic(w, "grip_request")
    ELSE [w EXCEPT !.Module.cancellations_handles =
                        insert_run(@, RequestCancellation(0), n),
                   !.ghost.silent = @ + n,
                   !.last = [fn |-> "grip_request",
                             ret |-> peek_id(w.Module.cancellations_handles) + n - 1,
                             logged |-> FALSE]]

\* w with the run of its cancellation table written out
Plain(w) ==
    IF w.Module.is_some
    THEN [w EXCEPT !.Module.cancellations_handles.inner = Entries(w.Module.cancellations_handles),
                   !.Module.cancellations_handles.run = NoRun]
    ELSE w

(***************************** the state machine **************************)
World ==
    [Module |-> Module, tasks |-> tasks, invoked |-> invoked, panicked |-> panicked,
     ghost |-> ghost, last |-> last]

Becomes0(w) ==
    /\ Module = w.Module
    /\ tasks = w.tasks
    /\ invoked = w.invoked
    /\ panicked = w.panicked
    /\ ghost = w.ghost
    /\ last = w.last

Becomes(w) ==
    /\ Module' = w.Module
    /\ tasks' = w.tasks
    /\ invoked' = w.invoked
    /\ panicked' = w.panicked
    /\ ghost' = w.ghost
    /\ last' = w.last

\* the four handle tables of ModuleStorage
Tables == {"bodies", "options", "json", "cancellations"}

TableOf(M, tb) ==
    CASE tb = "bodies"        -> M.bodies_handles
      [] tb = "options"       -> M.options_handles
      [] tb = "json"          -> M.json_handles
      [] tb = "cancellations" -> M.cancellations_handles

\* the process before grip_init
Loaded ==
    [Module |-> NoModule, tasks |-> <<>>, invoked |-> <<>>, panicked |-> FALSE,
     ghost |-> [req |-> <<>>, arrived |-> <<>>, silent |-> 0, seen |-> <<>>,
                issued |-> [tb \in Tables |-> <<>>], removed |-> [tb \in Tables |-> {}]],
     last |-> [fn |-> "none", ret |-> 0, logged |-> FALSE]]

\* the module as grip_init leaves it
Init == \E config \in Configs : Becomes0(grip_init(Loaded, config))

\* the process as loaded, MODULE = None
InitLoaded == Becomes0(Loaded)

\* what the host passes to grip_request: a good request, or one with one fault
RequestArgs ==
    {GoodRequest, [GoodRequest EXCEPT !.request_type = 4],
     [GoodRequest EXCEPT !.body_handle = 1], [GoodRequest EXCEPT !.options_handle = 1]}
    \cup {[GoodRequest EXCEPT !.uri = u] : u \in URIs}

\* the handles the host passes to grip_cancel_request
CancelHandles == {0} \cup {g.handle : g \in Range(ghost.req)}

GripInit ==
    /\ ~panicked
    /\ \E config \in Configs : Becomes(grip_init(World, config))

GripDeinit ==
    /\ ~panicked
    /\ Becomes(grip_deinit(World))

GripRequest ==
    /\ ~panicked
    /\ Len(tasks) < MaxReq
    /\ \E args \in RequestArgs : Becomes(grip_request(World, args))

GripRequestLife ==
    /\ ~panicked
    /\ Len(tasks) < MaxReqLife
    /\ \E args \in RequestArgs : Becomes(grip_request(World, args))

\* The host opens with its backlog: a burst is the first thing submitted to a
\* freshly initialised module.
GripRequestBurst ==
    /\ ~panicked
    /\ Module.is_some
    /\ peek_id(Module.cancellations_handles) = FirstId
    /\ \E n \in BurstSizes : Becomes(request_burst(World, n))

GripCancelRequest ==
    /\ ~panicked
    /\ \E h \in CancelHandles : Becomes(grip_cancel_request(World, h))

GripProcessRequest ==
    /\ ~panicked
    /\ \E scripts \in [1..(IF Module.is_some THEN drain_limit(Module) ELSE 0)
                         -> HandlerScripts(World)] :
          Becomes(grip_process_request(World, scripts))

WorkerFinish ==
    /\ ~panicked
    /\ \E t \in DOMAIN tasks :
          /\ tasks[t].status = "running"
          /\ \E event \in Events \cup
                    (IF Module.is_some /\ TokenRegistered(Module, t)
                     THEN {} ELSE {"cancelled"}) :
                Becomes(worker_finish(World, t, event))

\* ghost: the id a creating call returned, in the order of the calls
Issue(w, tb) ==
    IF w.last.logged \/ w.panicked THEN w
    ELSE [w EXCEPT !.ghost.issued[tb] = Append(@, w.last.ret)]

\* ghost: the handle a removing call was given, when it reported success
Note(w, tb, h) ==
    IF w.last.ret = 1 /\ ~w.last.logged /\ ~w.panicked
    THEN [w EXCEPT !.ghost.removed[tb] = @ \cup {h}]
    ELSE w

\* bodies, option sets, JSON values and requests created so far
Created ==
    Len(ghost.issued["bodies"]) + Len(ghost.issued["options"]) +
    Len(ghost.issued["json"]) + Len(ghost.issued["cancellations"])

\* the integers the host passes as handles
Handles == -1 .. (MaxIns + 1)

\* every combination of method, URI, body handle and options handle
RequestArgsAll ==
    {[request_type |-> ty, uri |-> u, body_handle |-> b, options_handle |-> o,
      handler |-> "fn", responds |-> TRUE] :
        ty \in {1, 4}, u \in URIs, b \in -1 .. 2, o \in -1 .. 2}

\* what the host passes to grip_request when it holds bodies and option sets: any
\* two handles with a good method and URI, or a bad method or URI
RequestArgsT ==
    {[GoodRequest EXCEPT !.body_handle = b, !.options_handle = o] :
        b \in -1 .. 2, o \in -1 .. 2}
    \cup {[GoodRequest EXCEPT !.request_type = 4]}
    \cup {[GoodRequest EXCEPT !.uri = u] : u \in URIs}

GripBodyFromString ==
    /\ ~panicked
    /\ \E str \in BodyStrings :
          /\ str # "NULL" => Created < MaxIns
          /\ Becomes(Issue(grip_body_from_string(World, str), "bodies"))

GripDestroyBody ==
    /\ ~panicked
    /\ \E h \in Handles : Becomes(Note(grip_destroy_body(World, h), "bodies", h))

GripCreateDefaultOptions ==
    /\ ~panicked
    /\ \E timeout \in Timeouts :
          /\ timeout # -2 => Created < MaxIns
          /\ Becomes(Issue(grip_create_default_options(World, timeout), "options"))

GripDestroyOptions ==
    /\ ~panicked
    /\ \E h \in Handles : Becomes(Note(grip_destroy_options(World, h), "options", h))

GripOptionsAddHeader ==
    /\ ~panicked
    /\ \E h \in Handles, name \in HeaderNames, value \in HeaderValues :
          Becomes(grip_options_add_header(World, h, name, value))

GripJsonInitObject ==
    /\ ~panicked
    /\ Created < MaxIns
    /\ Becomes(Issue(grip_json_init_object(World), "json"))

GripDestroyJsonValue ==
    /\ ~panicked
    /\ \E h \in Handles : Becomes(Note(grip_destroy_json_value(World, h), "json", h))

GripRequestT ==
    /\ ~panicked
    /\ \E args \in RequestArgsT :
          /\ ~grip_request(World, args).last.logged => Created < MaxIns
          /\ Becomes(Issue(grip_request(World, args), "cancellations"))

GripCancelRequestT ==
    /\ ~panicked
    /\ \E h \in Handles :
          Becomes(Note(grip_cancel_request(World, h), "cancellations", h))

GripIsRequestActive ==
    /\ ~panicked
    /\ \E h \in Handles : Becomes(grip_is_request_active(World, h))

\* one initialised module whose host also creates, changes and destroys bodies,
\* option sets and JSON values
NextTables ==
    \/ GripBodyFromString
    \/ GripDestroyBody
    \/ GripCreateDefaultOptions
    \/ GripDestroyOptions
    \/ GripOptionsAddHeader
    \/ GripJsonInitObject
    \/ GripDestroyJsonValue
    \/ GripRequestT
    \/ GripCancelRequestT
    \/ GripIsRequestActive

SpecTables == Init /\ [][NextTables]_vars

\* one initialised module whose host creates bodies and option sets, submits
\* requests that use them, changes and destroys them while the workers run, and ticks
NextCopies ==
    \/ GripBodyFromString
    \/ GripDestroyBody
    \/ GripCreateDefaultOptions
    \/ GripDestroyOptions
    \/ GripOptionsAddHeader
    \/ GripRequestT
    \/ GripRequestBurst
    \/ GripCancelRequest
    \/ GripProcessRequest
    \/ WorkerFinish

SpecCopies == Init /\ [][NextCopies]_vars

\* the same, with a host that keeps ticking and workers that finish
SpecCopiesFair == SpecCopies /\ WF_vars(GripProcessRequest) /\ WF_vars(WorkerFinish)

\* one initialised module: the host submits, cancels and ticks, the workers finish
Next ==
    \/ GripRequest
    \/ GripRequestBurst
    \/ GripCancelRequest
    \/ GripProcessRequest
    \/ WorkerFinish

Spec == Init /\ [][Next]_vars

\* the whole life of the process: grip_init and grip_deinit as well
NextLife ==
    \/ GripInit
    \/ GripDeinit
    \/ GripRequestLife
    \/ GripRequestBurst
    \/ GripCancelRequest
    \/ GripProcessRequest
    \/ WorkerFinish

SpecLife == InitLoaded /\ [][NextLife]_vars

\* grip_init with whatever file the host's configuration directory holds
GripInitAny ==
    /\ ~panicked
    /\ \E config \in ConfigsAll : Becomes(grip_init(World, config))

\* the whole life of the process, started with any configuration file
NextStartup ==
    \/ GripInitAny
    \/ GripDeinit
    \/ GripRequestLife
    \/ GripRequestBurst
    \/ GripCancelRequest
    \/ GripProcessRequest
    \/ WorkerFinish

SpecStartup == InitLoaded /\ [][NextStartup]_vars

\* the host submits a request and passes no handler
GripRequestNullHandler ==
    /\ ~panicked
    /\ Len(tasks) < MaxReq
    /\ Becomes(grip_request(World, [GoodRequest EXCEPT !.handler = "NULL"]))

\* one initialised module whose host submits requests with and without a handler
NextHandlers ==
    \/ GripRequest
    \/ GripRequestNullHandler
    \/ GripRequestBurst
    \/ GripCancelRequest
    \/ GripProcessRequest
    \/ WorkerFinish

SpecHandlers == Init /\ [][NextHandlers]_vars

\* what a handler's script may be when handlers also submit and tick: the
\* handles cancelled are those of the requests submitted so far and the one the
\* next submission gets
InsideScripts(w) ==
    HandlerScripts(w) \cup
    {[op |-> "cancel", h |-> peek_id(w.Module.cancellations_handles)],
     [op |-> "submit", h |-> 0], [op |-> "tick", h |-> 0]}

\* the tick, with one script for each record it can pop
GripProcessRequestInside ==
    /\ ~panicked
    /\ \E scripts \in [1..Min(drain_limit(Module), Len(Module.global_queue.responses))
                         -> InsideScripts(World)] :
          /\ Len(tasks) + Cardinality({i \in DOMAIN scripts : scripts[i].op = "submit"})
                <= MaxReq
          /\ Becomes(grip_process_request(World, scripts))

\* a module initialised with two callbacks per frame that holds a body, an option
\* set, a JSON value and a backlog of requests to an endpoint that never answers
InitInside ==
    Becomes0(request_burst(
             Issue(grip_json_init_object(
             Issue(grip_create_default_options(
             Issue(grip_body_from_string(
                 grip_init(Loaded, ConfigFile("OK", TRUE, Some(2), Some(2), Some(100))),
                 "x"), "bodies"),
             1), "options")), "json"),
             2 * Threshold))

\* the host submits a request that is in order
GripRequestGood ==
    /\ ~panicked
    /\ Len(tasks) < MaxReq
    /\ Becomes(grip_request(World, GoodRequest))

\* one module with a backlog whose handlers cancel, submit and tick as well
NextInside ==
    \/ GripRequestGood
    \/ GripCancelRequest
    \/ GripProcessRequestInside
    \/ WorkerFinish

SpecInside == InitInside /\ [][NextInside]_vars

\* one initialised module whose host keeps ticking and whose workers finish
SpecFair == Spec /\ WF_vars(GripProcessRequest) /\ WF_vars(WorkerFinish)

(***************************** ext.rs: ValueExt ***************************)
\* the longest name passed to a lookup
MaxNameLen == 5

\* serde_json::Value, as far as the lookups tell values apart: an object (a map
\* from keys to values) or something else (a number, null)
Number == [tag |-> "number", n |-> 123]
Null == [tag |-> "null"]
Object(m) == [tag |-> "object", m |-> m]

\* names and keys are strings: sequences of characters
Chars == {"a", "b", "."}
Names == UNION {[1..n -> Chars] : n \in 0..MaxNameLen}

\* the JSON values looked into: leaves, objects of leaves (one under the empty
\* key), objects of those (one under a key that holds a dot), and a deeper one
Leaves == {Number, Null}
Inner ==
    Leaves \cup {Object(m) : m \in UNION {[K -> Leaves] : K \in SUBSET {<<"b">>, <<>>}}}
Outer ==
    {Object(m) : m \in UNION {[K -> {Number, Object(<<"b">> :> Number),
                                     Object(<<>> :> Number), Object(EmptyFcn)}] :
                              K \in SUBSET {<<"a">>, <<"a", ".", "b">>}}}
JsonValues ==
    Inner \cup Outer
    \cup {Object(<<"a">> :> Object(<<"b">> :> Object(<<"a">> :> Number)))}

\* Result<&Value>
Ok(value) == [ok |-> TRUE, value |-> value]
Err(error) == [ok |-> FALSE, error |-> error]

\* name.split('.'): the pieces between the dots, the empty ones included
RECURSIVE split(_)
split(name) ==
    IF \A i \in DOMAIN name : name[i] # "."
    THEN <<name>>
    ELSE LET i == CHOOSE k \in DOMAIN name :
                      name[k] = "." /\ \A j \in 1..(k - 1) : name[j] # "."
         IN  <<SubSeq(name, 1, i - 1)>> \o split(SubSeq(name, i + 1, Len(name)))

\* the match of index_selective_safe with dot_notation = false
index_safe(self, name) ==
    IF self.tag = "object"
    THEN IF name \in DOMAIN self.m
         THEN Ok(self.m[name])
         ELSE Err("json doesn't contain it")
    ELSE Err("json stops is not object")

\* the loop of dot_index_safe over what is left of the elements
RECURSIVE dot_index_loop(_, _)
dot_index_loop(it, elements) ==
    IF elements = <<>> THEN Ok(it)
    ELSE IF Head(elements) = <<>> THEN Err("Double/Empty separator")
    ELSE LET next == index_safe(it, Head(elements))
         IN  IF next.ok THEN dot_index_loop(next.value, Tail(elements)) ELSE next

dot_index_safe(self, name) == dot_index_loop(self, split(name))

index_selective_safe(self, name, dot_notation) ==
    IF dot_notation THEN dot_index_safe(self, name) ELSE index_safe(self, name)

\* the match of index_selective_safe_mut with dot_notation = false
index_safe_mut(self, name) ==
    IF self.tag = "object"
    THEN IF name \in DOMAIN self.m
         THEN Ok(self.m[name])
         ELSE Err("json doesn't contain it")
    ELSE Err("json stops is not object")

\* the loop of dot_index_safe_mut over what is left of the elements
RECURSIVE dot_index_loop_mut(_, _)
dot_index_loop_mut(it, elements) ==
    IF elements = <<>> THEN Ok(it)
    ELSE IF Head(elements) = <<>> THEN Err("Double/Empty separator")
    ELSE LET next == index_safe_mut(it, Head(elements))
         IN  IF next.ok THEN dot_index_loop_mut(next.value, Tail(elements)) ELSE next

\* (mutant) empty elements are skipped
RECURSIVE dot_index_loop_mut_skips(_, _)
dot_index_loop_mut_skips(it, elements) ==
    IF elements = <<>> THEN Ok(it)
    ELSE IF Head(elements) = <<>> THEN dot_index_loop_mut_skips(it, Tail(elements))
    ELSE LET next == index_safe_mut(it, Head(elements))
         IN  IF next.ok THEN dot_index_loop_mut_skips(next.value, Tail(elements)) ELSE next

\* (mutant) dot_index_safe_mut, its loop skipping empty elements
dot_index_safe_mut_skips(self, name) == dot_index_loop_mut_skips(self, split(name))

dot_index_safe_mut(self, name) == dot_index_loop_mut(self, split(name))

index_selective_safe_mut(self, name, dot_notation) ==
    IF dot_notation THEN dot_index_safe_mut(self, name) ELSE index_safe_mut(self, name)

\* The host is about to look a name up in a JSON value, with or without dot
\* notation.
ValueIndexCalls ==
    {[fn |-> "index_selective_safe", ret |-> 0, logged |-> FALSE, called |-> FALSE,
      self |-> self, name |-> name, dot_notation |-> dot_notation] :
        self \in JsonValues, name \in Names, dot_notation \in BOOLEAN}

\* the lookup is made, through each of the four functions
ValueIndex ==
    /\ ~panicked
    /\ last.fn = "index_selective_safe"
    /\ ~last.called
    /\ last' = [fn |-> "index_selective_safe", ret |-> 0, logged |-> FALSE,
                called |-> TRUE,
                self |-> last.self, name |-> last.name,
                dot_notation |-> last.dot_notation,
                dot_index_safe |-> dot_index_safe(last.self, last.name),
                dot_index_safe_mut |-> dot_index_safe_mut(last.self, last.name),
                index_selective_safe |->
                    index_selective_safe(last.self, last.name, last.dot_notation),
                index_selective_safe_mut |->
                    index_selective_safe_mut(last.self, last.name, last.dot_notation)]
    /\ UNCHANGED <<Module, tasks, invoked, panicked, ghost>>

(***************************** ext.rs: copy_unsafe_string *****************)
\* the longest source string copied
MaxSourceLen == 3
\* the cells of the destination buffer
DestCells == 4

\* the strings copied: characters other than NUL
Sources == UNION {[1..n -> {"1", "2"}] : n \in 0..MaxSourceLen}
\* the sizes passed: negative, within the buffer, and one that leaves no room for
\* the terminator
Sizes == -2 .. DestCells
\* the destination before the copy: cells the caller has not written
FreshDest == [i \in 1..DestCells |-> "?"]
\* the amx pointer the caller passes on
AMX == 123

\* libc::strncpy(dest, src, n): the bytes of src up to its NUL, then NULs, n bytes
\* in all; cell i of the sequence is dest[i - 1]
strncpy(dest, src, n) ==
    LET nul == CHOOSE k \in DOMAIN src : src[k] = "NUL" /\ \A j \in 1..(k - 1) : src[j] # "NUL"
    IN  [i \in DOMAIN dest |->
            IF i > n THEN dest[i]
            ELSE IF i < nul THEN src[i] ELSE "NUL"]

\* (mutant) the terminator at dest[size] is not written
copy_unsafe_string_unterminated(amx, dest, source, size) ==
    LET src == source \o <<"NUL">>
    IN  IF size < 0
        THEN [returned |-> TRUE, value |-> 0, dest |-> dest, logged |-> <<amx>>,
              overrun |-> FALSE]
        ELSE [returned |-> FALSE, value |-> Min(size, Len(src)),
              dest |-> strncpy(dest, src, size), logged |-> <<>>,
              overrun |-> FALSE]

\* copy_unsafe_string!(amx, dest, source, size, error_logger).  `returned`: the
\* enclosing function returned `value` from inside the macro; otherwise `value` is
\* the value of the macro.  `logged`: the amx of each call of the error logger.
\* `overrun`: the terminator was written past the end of the buffer.
copy_unsafe_string(amx, dest, source, size) ==
    LET src == source \o <<"NUL">>
    IN  IF size < 0
        THEN [returned |-> TRUE, value |-> 0, dest |-> dest, logged |-> <<amx>>,
              overrun |-> FALSE]
        ELSE [returned |-> FALSE, value |-> Min(size, Len(src)),
              dest |-> [i \in DOMAIN dest |->
                           IF i = size + 1 THEN "NUL" ELSE strncpy(dest, src, size)[i]],
              logged |-> <<>>,
              overrun |-> size + 1 > Len(dest)]

\* A function of the FFI is about to copy a string into a buffer of the host.
CopyCalls ==
    {[fn |-> "copy_unsafe_string", ret |-> 0, logged |-> FALSE, called |-> FALSE,
      source |-> source, size |-> size] : source \in Sources, size \in Sizes}

\* the copy is made
CopyUnsafeString ==
    /\ ~panicked
    /\ last.fn = "copy_unsafe_string"
    /\ ~last.called
    /\ last' = [fn |-> "copy_unsafe_string", ret |-> 0, logged |-> FALSE,
                called |-> TRUE, source |-> last.source, size |-> last.size,
                copy |-> copy_unsafe_string(AMX, FreshDest, last.source, last.size)]
    /\ UNCHANGED <<Module, tasks, invoked, panicked, ghost>>

\* an initialised module and a call of one of the helpers of ext.rs, with every
\* value, name, string and size
InitExt ==
    \E call \in ValueIndexCalls \cup CopyCalls :
        Becomes0([grip_init(Loaded, CHOOSE config \in Configs : TRUE)
                      EXCEPT !.last = call])

NextExt ==
    \/ ValueIndex
    \/ CopyUnsafeString

SpecExt == InitExt /\ [][NextExt]_vars

(***************************** cross-checks *******************************)
\* request_burst is n calls of grip_request: in every state, for short bursts,
\* both leave the same tables, counters and return value
BurstIsRepeatedRequest ==
    \A n \in 1..3 :
        Plain(request_burst(World, n)) = Plain(repeat_request(World, SilentRequest, n))

(***************************** properties *********************************)
Delivered(t) == t \in Range(invoked)

\* how many times the handler of task t was invoked
Times(t) == Cardinality({i \in DOMAIN invoked : invoked[i] = t})

Registered(t) == Module.is_some /\ TokenRegistered(Module, t)

\* the completion record of task t waits in the completion buffer
Buffered(t) ==
    /\ Module.is_some
    /\ \E i \in DOMAIN Module.global_queue.responses :
          Module.global_queue.responses[i].task = t

\* the token of t was removed by a cancel or by shutdown before t was delivered
Suppressed(t) ==
    \/ ghost.req[t].cancel \in {"before_resolve", "before_delivery"}
    \/ ghost.req[t].shutdown

\* the step is a call of grip_process_request
IsTick == last'.fn = "grip_process_request" /\ tasks' = tasks

Ticked == last.fn = "grip_process_request"

\* C1: once grip_cancel_request(h) has returned found while the request of h was
\* still unresolved, the handler of that request is never invoked.
C1_CancelledNeverInvoked ==
    \A t \in DOMAIN tasks : ghost.req[t].cancel = "before_resolve" => ~Delivered(t)

\* a request cancelled while its worker ran, whose worker then finished and whose
\* record a tick has popped and dropped
C1_Witness ==
    \E t \in DOMAIN tasks :
        /\ ghost.req[t].cancel = "before_resolve"
        /\ tasks[t].status = "finished"
        /\ ~Buffered(t)
        /\ ~Delivered(t)
        /\ Ticked

\* C2: a handler is invoked at most once; a request is never both Delivered and
\* Suppressed; once its token is gone it is one of the two; and it stays what it is.
C2_DeliveredXorSuppressed ==
    /\ [](\A t \in DOMAIN tasks :
            /\ Times(t) <= 1
            /\ ~(Delivered(t) /\ Suppressed(t))
            /\ (~Registered(t) => Delivered(t) \/ Suppressed(t)))
    /\ [][\A t \in DOMAIN tasks :
            /\ Delivered(t) => Times(t)' = 1
            /\ Suppressed(t) => Suppressed(t)']_vars

\* a delivered request and, after a shutdown and a second grip_init, a module
\* that ticks again
C2_Witness ==
    \E t \in DOMAIN tasks :
        /\ Times(t) = 1
        /\ ~Suppressed(t)
        /\ ghost.req[t].cancel = "during_delivery"
        /\ Module.is_some
        /\ tasks[t].orphaned
        /\ Ticked

\* C3: the handle grip_request returns is the id its closure captured with peek_id
\* before the insert, and the token is registered under that id.
C3_HandleIsPeekedId ==
    \A t \in DOMAIN tasks :
        /\ ghost.req[t].handle = tasks[t].closure.next_cancellation_id
        /\ Registered(t) =>
              get_with_id(Module.cancellations_handles,
                          tasks[t].closure.next_cancellation_id) = Some(RequestCancellation(t))

\* a request submitted after a backlog, delivered, its token removed by its closure
C3_Witness ==
    \E t \in DOMAIN tasks :
        /\ ghost.req[t].handle > Threshold
        /\ Delivered(t)
        /\ ~Registered(t)
        /\ ghost.req[t].cancel = "no"

\* C4: a call of grip_process_request invokes at most as many handlers as the limit
\* it passes to the drain.
C4_AtMostLimit == Ticked => last.calls <= last.limit

\* a tick that invoked as many handlers as its limit and left a deliverable record
C4_Witness ==
    /\ Ticked
    /\ last.limit >= 1
    /\ last.calls = last.limit
    /\ last.ready > last.limit
    /\ \E t \in DOMAIN tasks : Buffered(t) /\ Registered(t)

\* C5: no handler is invoked for a request that was outstanding when grip_deinit
\* was called.
C5_NoneAfterShutdown ==
    \A t \in DOMAIN tasks : ghost.req[t].shutdown => ~Delivered(t)

\* a request outstanding at shutdown whose worker finished afterwards, and a
\* module initialised again that ticks with a limit of at least one
C5_Witness ==
    \E t \in DOMAIN tasks :
        /\ ghost.req[t].shutdown
        /\ tasks[t].status = "lost"
        /\ Module.is_some
        /\ Ticked
        /\ last.limit >= 1
        /\ ~Delivered(t)

\* the record of task t waits in the completion buffer with a successful outcome
BufferedOk(t) ==
    \E i \in DOMAIN Module.global_queue.responses :
        Module.global_queue.responses[i] = [task |-> t, outcome |-> "Ok"]

\* every request submitted has completed, none was cancelled, and each is
\* delivered or waits in the buffer as a success
AllReadyOk ==
    /\ tasks # <<>>
    /\ \A t \in DOMAIN tasks :
          /\ tasks[t].status = "finished"
          /\ ghost.req[t].cancel = "no"
          /\ Delivered(t) \/ BufferedOk(t)

\* C6: with N successful requests ready and none cancelled, below the backlog
\* threshold, each call of grip_process_request with callbacks_per_frame = k
\* invokes min(k, ready) handlers, so that N handlers run in ceil(N/k) calls.
C6_DrainsInCeilCalls ==
    (Ticked /\ AllReadyOk /\ last.pending < Threshold) =>
        last.calls = Min(Module.callbacks_per_frame, last.ready)

\* C7: under a host that keeps ticking and workers that finish, every submitted
\* request that is not cancelled has its handler invoked in the end.
C7_EventuallyDelivered ==
    \A t \in 1..MaxReq :
        (t \in DOMAIN tasks) ~>
            (t \in DOMAIN tasks /\ (Delivered(t) \/ ghost.req[t].cancel # "no"))

\* C8: with more than Threshold requests pending, the limit passed to the drain is
\* larger than callbacks_per_frame.
C8_LimitScalesUp ==
    (Ticked /\ last.pending > Threshold) => last.limit > Module.callbacks_per_frame

\* C9: the multiplier of a tick is 1 from Threshold pending requests on and 0 below,
\* never more than 1; the limit is callbacks_per_frame times it, never more than
\* callbacks_per_frame; the warning branch is not taken.
C9_MultiplierClamped ==
    Ticked =>
        /\ last.multiplier = (IF last.pending >= Threshold THEN 1 ELSE 0)
        /\ last.multiplier <= 1
        /\ last.limit = Module.callbacks_per_frame * last.multiplier
        /\ last.limit <= Module.callbacks_per_frame
        /\ ~last.warned

\* a tick with at least twice Threshold requests pending, its multiplier 1, that
\* invoked a handler
C9_Witness ==
    /\ Ticked
    /\ last.pending >= 2 * Threshold
    /\ last.multiplier = 1
    /\ last.calls >= 1

\* where x stands in the sequence s
Pos(s, x) == CHOOSE i \in DOMAIN s : s[i] = x

\* C10: handlers run in the order in which their completions arrived.
C10_Fifo ==
    \A i, j \in DOMAIN invoked :
        i < j => Pos(ghost.arrived, invoked[i]) < Pos(ghost.arrived, invoked[j])

\* the second request completed first; both were delivered, in that order, by two
\* successive ticks
C10_Witness ==
    /\ ghost.arrived = <<2, 1>>
    /\ invoked = <<2, 1>>
    /\ Ticked
    /\ last.calls = 1

(***************************** handle tables ******************************)
\* the table tb of the module
Table(tb) == TableOf(Module, tb)

\* C11: in every table the ids returned by successive inserts strictly increase,
\* the next id is above all of them, a removed id is never found again, whatever
\* was inserted since, and a clear neither resets the next id nor leaves an entry.
C11_IdsNeverReused ==
    \A tb \in Tables :
        /\ \A i, j \in DOMAIN ghost.issued[tb] :
              i < j => ghost.issued[tb][i] < ghost.issued[tb][j]
        /\ \A id \in Range(ghost.issued[tb]) : id < peek_id(Table(tb))
        /\ \A id \in ghost.removed[tb] : get_with_id(Table(tb), id) = None
        /\ peek_id(clear(Table(tb))) = peek_id(Table(tb))
        /\ \A id \in Handles : get_with_id(clear(Table(tb)), id) = None

\* the body of id 1 was destroyed, and the insert that followed returned 2
C11_Witness ==
    /\ ghost.removed["bodies"] = {1}
    /\ last.fn = "grip_body_from_string"
    /\ last.ret = 2
    /\ get_with_id(Table("bodies"), 1) = None
    /\ get_with_id(Table("bodies"), 2) # None

\* the tables whose entries the host destroys, and the call that does it
Destroyable == {"bodies", "options", "json"}

Destroy(w, tb, h) ==
    CASE tb = "bodies"  -> grip_destroy_body(w, h)
      [] tb = "options" -> grip_destroy_options(w, h)
      [] tb = "json"    -> grip_destroy_json_value(w, h)

\* the call returned v without logging an error
Returned(w, v) == w.last.ret = v /\ ~w.last.logged /\ ~w.panicked

\* the call logged an error, returned 0 and left the module as it was in w0
Refused(w, w0) ==
    w.last.ret = 0 /\ w.last.logged /\ ~w.panicked /\ w.Module = w0.Module

\* C12: in every state, destroying a live handle returns 1 and the handle is not
\* found afterwards; destroying it again, once or twice more, logs an error, returns
\* 0 and changes nothing; and so does destroying any handle destroyed earlier.
C12_RemoveOnce ==
    \A tb \in Destroyable, h \in Handles :
        LET first  == Destroy(World, tb, h)
            second == Destroy(first, tb, h)
            third  == Destroy(second, tb, h)
        IN  /\ IF get_with_id(Table(tb), h) # None
               THEN /\ Returned(first, 1)
                    /\ get_with_id(TableOf(first.Module, tb), h) = None
               ELSE Refused(first, World)
            /\ Refused(second, first)
            /\ Refused(third, second)
            /\ h \in ghost.removed[tb] =>
                  get_with_id(Table(tb), h) = None /\ Refused(first, World)

\* the option set of id 1 was destroyed, another was created since, and the last
\* call was a grip_destroy_options that was refused
C12_Witness ==
    /\ ghost.removed["options"] = {1}
    /\ get_with_id(Table("options"), 2) # None
    /\ last = [fn |-> "grip_destroy_options", ret |-> 0, logged |-> TRUE]

\* the handles tried against the cancellation table: the ones returned, and
\* integers never returned
ProbeHandles == CancelHandles \cup {-1, 2 * Threshold + MaxReq + 1}

\* C13: in every state grip_cancel_request(h) returns 1 exactly for the handle of a
\* request that is neither delivered nor cancelled, and then removes that token and
\* nothing else; for any other handle it logs an error, returns 0, does not abort
\* and leaves the module, and so the pending count, as it was.
C13_CancelFoundIffRegistered ==
    /\ \A t \in DOMAIN tasks :
          LET h  == ghost.req[t].handle
              w1 == grip_cancel_request(World, h)
          IN  IF ~Delivered(t) /\ ghost.req[t].cancel = "no"
              THEN /\ Returned(w1, 1)
                   /\ get_with_id(w1.Module.cancellations_handles, h) = None
                   /\ \A k \in ProbeHandles \ {h} :
                         get_with_id(w1.Module.cancellations_handles, k) =
                             get_with_id(Module.cancellations_handles, k)
                   /\ number_of_pending_requests(w1.Module) =
                          number_of_pending_requests(Module) - 1
                   /\ [w1.Module EXCEPT !.cancellations_handles = 0] =
                          [Module EXCEPT !.cancellations_handles = 0]
              ELSE Refused(w1, World)
    /\ \A h \in ProbeHandles \ {ghost.req[t].handle : t \in DOMAIN tasks} :
          get_with_id(Module.cancellations_handles, h) = None
              => Refused(grip_cancel_request(World, h), World)
    /\ last.fn = "grip_cancel_request" =>
          /\ last.ret = 1 <=> ~last.logged
          /\ get_with_id(Module.cancellations_handles, last.arg) = None

\* the request was delivered by a tick, and a cancel of its handle was then refused
C13_Witness ==
    \E t \in DOMAIN tasks :
        /\ Delivered(t)
        /\ ghost.req[t].cancel = "no"
        /\ last = [fn |-> "grip_cancel_request", ret |-> 0, logged |-> TRUE,
                   arg |-> ghost.req[t].handle]

\* the requests submitted to answering endpoints that are neither delivered nor
\* cancelled
Outstanding == {t \in DOMAIN tasks : ~Delivered(t) /\ ghost.req[t].cancel = "no"}

\* C14: the pending count is the number of requests submitted and neither delivered
\* nor cancelled, the tick reads that count, and a cancel that finds its token
\* lowers it by one at once.
C14_PendingIsRegistered ==
    /\ [](/\ number_of_pending_requests(Module) = Cardinality(Outstanding) + ghost.silent
          /\ \A t \in Outstanding :
                number_of_pending_requests(
                    grip_cancel_request(World, ghost.req[t].handle).Module) =
                        number_of_pending_requests(Module) - 1)
    /\ [][IsTick => last'.pending = Cardinality(Outstanding) + ghost.silent]_vars

\* after a backlog, one request was delivered and another cancelled while its
\* worker ran: the backlog alone is pending
C14_Witness ==
    /\ \E t \in DOMAIN tasks : Delivered(t) /\ ghost.req[t].cancel = "no"
    /\ \E t \in DOMAIN tasks : ghost.req[t].cancel = "before_resolve"
    /\ ghost.silent = 2 * Threshold
    /\ number_of_pending_requests(Module) = 2 * Threshold

\* by the history, h was returned by a creating call of table tb and not destroyed
Live(tb, h) == h \in Range(ghost.issued[tb]) \ ghost.removed[tb]

\* the arguments have one of the faults of a submission error
Faulty(args) ==
    \/ args.request_type \notin 0..3
    \/ args.uri # "VALID"
    \/ ~Live("bodies", args.body_handle) /\ args.body_handle # -1
    \/ ~Live("options", args.options_handle) /\ args.options_handle # -1

\* C15: in every state a grip_request with a faulty argument logs an error, returns
\* 0 and leaves the module (the cancellation table, its next id, the pending count),
\* the pool and the handlers invoked as they were, so nothing is ever delivered for
\* it; one without fault returns the next id and starts one worker.
C15_SubmissionErrorCreatesNothing ==
    /\ \A args \in RequestArgsAll :
          LET w1 == grip_request(World, args)
          IN  IF Faulty(args)
              THEN /\ Refused(w1, World)
                   /\ w1.tasks = tasks
                   /\ w1.invoked = invoked
                   /\ w1.ghost = ghost
                   /\ peek_id(w1.Module.cancellations_handles) =
                          peek_id(Module.cancellations_handles)
                   /\ number_of_pending_requests(w1.Module) =
                          number_of_pending_requests(Module)
              ELSE /\ Returned(w1, peek_id(Module.cancellations_handles))
                   /\ Len(w1.tasks) = Len(tasks) + 1
    /\ Len(tasks) = Len(ghost.issued["cancellations"])
    /\ Range(invoked) \subseteq DOMAIN tasks

\* a grip_request was refused while the host held a live option set and the handle
\* of a body it had destroyed; no request exists
C15_Witness ==
    /\ last = [fn |-> "grip_request", ret |-> 0, logged |-> TRUE]
    /\ ghost.removed["bodies"] = {1}
    /\ Live("options", 1)
    /\ tasks = <<>>
    /\ peek_id(Module.cancellations_handles) = FirstId

\* the call came back: the process lives and the call returned 0 with its error
\* logged, or a value without
CameBack(w) == ~w.panicked /\ (w.last.logged => w.last.ret = 0)

\* C19: in every state of an initialised module, each call that takes a handle
\* comes back with a result for every integer handle, live or not; and no call
\* made so far has aborted the process.
C19_HandlesNeverAbort ==
    /\ ~panicked
    /\ Module.is_some
    /\ \A h \in Handles :
          /\ CameBack(grip_destroy_body(World, h))
          /\ CameBack(grip_destroy_options(World, h))
          /\ CameBack(grip_cancel_request(World, h))
          /\ CameBack(grip_is_request_active(World, h))
          /\ \A name \in HeaderNames, value \in HeaderValues :
                CameBack(grip_options_add_header(World, h, name, value))
          /\ \A o \in Handles :
                CameBack(grip_request(World,
                    [GoodRequest EXCEPT !.body_handle = h, !.options_handle = o]))
          /\ ~Live("bodies", h) => grip_destroy_body(World, h).last.ret = 0
          /\ ~Live("options", h) =>
                /\ grip_destroy_options(World, h).last.ret = 0
                /\ \A name \in HeaderNames, value \in HeaderValues :
                      grip_options_add_header(World, h, name, value).last.ret = 0
          /\ ~Live("cancellations", h) =>
                /\ grip_cancel_request(World, h).last.ret = 0
                /\ grip_is_request_active(World, h).last.ret = 0

\* the option set of id 1 was destroyed; a grip_options_add_header was then refused,
\* and the process lives
C19_Witness ==
    /\ ghost.removed["options"] = {1}
    /\ ~Live("options", 2)
    /\ last = [fn |-> "grip_options_add_header", ret |-> 0, logged |-> TRUE]
    /\ ~panicked

\* the one table a call works on
Touched(fn) ==
    CASE fn \in {"grip_body_from_string", "grip_destroy_body"} -> "bodies"
      [] fn \in {"grip_create_default_options", "grip_destroy_options",
                 "grip_options_add_header"} -> "options"
      [] fn \in {"grip_json_init_object", "grip_destroy_json_value"} -> "json"
      [] fn \in {"grip_request", "grip_cancel_request"} -> "cancellations"
      [] OTHER -> "none"

\* C20: a handle that the history does not know as live in a table is refused by
\* every call on that table, whatever the other tables hold under the same integer;
\* and a call changes neither the entries nor the next id of any table but its own.
C20_TablesIndependent ==
    /\ [](\A h \in Handles :
            /\ ~Live("bodies", h) =>
                  /\ Refused(grip_destroy_body(World, h), World)
                  /\ h # -1 => Refused(grip_request(World,
                                   [GoodRequest EXCEPT !.body_handle = h]), World)
            /\ ~Live("options", h) =>
                  /\ Refused(grip_destroy_options(World, h), World)
                  /\ Refused(grip_options_add_header(World, h, "h", "v1"), World)
                  /\ h # -1 => Refused(grip_request(World,
                                   [GoodRequest EXCEPT !.options_handle = h]), World)
            /\ ~Live("json", h) => Refused(grip_destroy_json_value(World, h), World)
            /\ ~Live("cancellations", h) =>
                  /\ Refused(grip_cancel_request(World, h), World)
                  /\ grip_is_request_active(World, h).last.ret = 0)
    /\ [][\A tb \in Tables :
            tb # Touched(last'.fn) => TableOf(Module', tb) = TableOf(Module, tb)]_vars

\* the integer 1 names a live body and a live request and nothing else, and a
\* grip_destroy_options was refused
C20_Witness ==
    /\ Live("bodies", 1)
    /\ Live("cancellations", 1)
    /\ ~Live("options", 1)
    /\ ~Live("json", 1)
    /\ last = [fn |-> "grip_destroy_options", ret |-> 0, logged |-> TRUE]

(***************************** requests in flight *************************)
\* the body, or the option set, that request t was submitted with has since been
\* destroyed or changed in its table
ChangedSince(t) ==
    LET b == ghost.req[t].body_handle
        o == ghost.req[t].options_handle
    IN  \/ b # -1 /\ get_with_id(Table("bodies"), b) # Some(tasks[t].request.body)
        \/ o # -1 /\ get_with_id(Table("options"), o) # Some(tasks[t].request.options)

\* the step submits a request: its body and option set are what the tables hold
\* under the handles given (or the empty ones for -1)
TakesCopies ==
    Len(tasks') = Len(tasks) + 1 =>
        LET t == Len(tasks')
            b == ghost'.req[t].body_handle
            o == ghost'.req[t].options_handle
        IN  /\ tasks'[t].request.body =
                  (IF b = -1 THEN EMPTY_VEC ELSE Entries(Table("bodies"))[b])
            /\ tasks'[t].request.options =
                  (IF o = -1 THEN RequestOptions_default ELSE Entries(Table("options"))[o])

\* a request keeps the body and the option set it was submitted with, whatever
\* is destroyed or changed in the tables afterwards
CopiesKept ==
    [][/\ TakesCopies
       /\ \A t \in DOMAIN tasks : tasks'[t].request = tasks[t].request]_vars

\* request t was delivered or cancelled
Settled(t) == Delivered(t) \/ ghost.req[t].cancel # "no"

\* C16: a request keeps the body and option set it was submitted with, and when
\* its body or option set is destroyed or changed while it is in flight, it is still
\* delivered in the end (unless it is cancelled).
C16_CopiesAndDelivery ==
    /\ CopiesKept
    /\ \A t \in 1..MaxIns :
          (t \in DOMAIN tasks /\ ChangedSince(t) /\ ~Settled(t)) ~>
              (t \in DOMAIN tasks /\ Settled(t))

\* the record of request t waits in the buffer, and what ended its exchange was event
Ended(t, event) == t \in DOMAIN tasks /\ ghost.req[t].event = event

\* the last call was a tick in which the handler of t ran and saw the state st
SawState(t, st) ==
    /\ Ticked
    /\ \E i \in DOMAIN last.seen : last.seen[i].task = t /\ last.seen[i].state = st

\* a tick's handlers see 4 for a request ended by its timeout, 2 for one ended by
\* a transport failure, 3 for one the server answered
SeesOutcome ==
    [][IsTick =>
         \A i \in DOMAIN last'.seen :
             last'.seen[i].state =
                 (CASE Ended(last'.seen[i].task, "timed_out") -> 4
                    [] Ended(last'.seen[i].task, "failed")    -> 2
                    [] Ended(last'.seen[i].task, "responded") -> 3
                    [] OTHER -> 0)]_vars

\* C17: a request with a configured timeout whose timeout ends the exchange resolves
\* to RequestTimeout, its handler runs at most once and sees state 4, and unless it
\* is cancelled its handler does run in the end.
C17_TimeoutDeliveredOnce ==
    /\ SeesOutcome
    /\ [](\A t \in DOMAIN tasks :
            /\ Times(t) <= 1
            /\ Ended(t, "timed_out") =>
                  \E i \in DOMAIN Module.global_queue.responses :
                      Module.global_queue.responses[i] =
                          [task |-> t, outcome |-> "RequestTimeout"])
    /\ \A t \in 1..MaxIns :
          (Ended(t, "timed_out") /\ tasks[t].request.options.timeout # None) ~>
              (t \in DOMAIN tasks /\ (ghost.req[t].cancel # "no" \/ SawState(t, 4)))

\* C18: a transport failure does not abort the process: the tick that drains it
\* returns, its handler runs at most once and sees state 2, and unless the request
\* is cancelled its handler does run in the end.
C18_FailureDeliveredOnce ==
    /\ SeesOutcome
    /\ [](~panicked /\ \A t \in DOMAIN tasks : Times(t) <= 1)
    /\ \A t \in 1..MaxReq :
          Ended(t, "failed") ~>
              (t \in DOMAIN tasks /\ (ghost.req[t].cancel # "no" \/ SawState(t, 2)))

(***************************** option sets ********************************)
\* the values the option set w holds under handle h has under the header name
HeaderValuesOf(w, h, name) ==
    LET headers == get_with_id(w.Module.options_handles, h)[1].headers
    IN  IF name \in DOMAIN headers THEN Range(headers[name]) ELSE {}

\* C21: in every state, two calls of grip_options_add_header on a live option set
\* with the same name and two different values both return 1, and afterwards the
\* option set holds both values under that name, and so does a request submitted
\* with it.
C21_HeadersRepeat ==
    \A h \in Handles :
        Live("options", h) =>
            LET w1  == grip_options_add_header(World, h, "h", "v1")
                w2  == grip_options_add_header(w1, h, "h", "v2")
                w3  == grip_request(w2, [GoodRequest EXCEPT !.options_handle = h])
                req == w3.tasks[Len(w3.tasks)].request
            IN  /\ Returned(w1, 1)
                /\ Returned(w2, 1)
                /\ {"v1", "v2"} \subseteq HeaderValuesOf(w2, h, "h")
                /\ Len(w3.tasks) = Len(tasks) + 1
                /\ {"v1", "v2"} \subseteq Range(req.options.headers["h"])

(***************************** startup ************************************)
\* something the initialisation needs is missing from the file, or unparseable
FaultyConfig(config) ==
    \/ config.file # "OK"
    \/ ~config.queue_section
    \/ ~Parses(config.worker_thread_count)
    \/ ~Parses(config.callbacks_per_frame)
    \/ ~Parses(config.microseconds_delay_between_attempts)

\* C22: whenever the module is not initialised, grip_init with a configuration
\* that lacks the file, the [queue] section or a parseable value of one of the
\* three keys ends in a fatal error and leaves the module uninitialised.
C22_AllThreeRequired ==
    (~Module.is_some /\ ~panicked) =>
        \A config \in ConfigsAll :
            FaultyConfig(config) =>
                /\ grip_init(World, config).panicked
                /\ ~grip_init(World, config).Module.is_some

(***************************** the tick ***********************************)
\* what the handlers of a tick may do, for every handler the tick can invoke
TickScripts == [1..drain_limit(Module) -> HandlerScripts(World)]

\* C23: in every state a call of grip_process_request comes back without waiting
\* for a worker: the pool is as it was; and with an empty completion buffer it
\* invokes no handler and changes nothing in the module, whatever the number of
\* pending requests and of workers still running.
C23_TickReturns ==
    \A scripts \in TickScripts :
        LET w1 == grip_process_request(World, scripts)
        IN  /\ ~w1.panicked
            /\ w1.last.fn = "grip_process_request"
            /\ w1.tasks = tasks
            /\ w1.last.calls <= Len(Module.global_queue.responses)
            /\ Module.global_queue.responses = <<>> =>
                  /\ w1.invoked = invoked
                  /\ w1.Module = Module
                  /\ w1.last.calls = 0

\* a tick with an empty buffer, a limit of at least one, a backlog pending and a
\* worker still running: it returned and invoked nothing
C23_Witness ==
    /\ Ticked
    /\ last.ready = 0
    /\ last.limit >= 1
    /\ last.pending > 2 * Threshold
    /\ last.calls = 0
    /\ \E t \in DOMAIN tasks : tasks[t].status = "running" /\ Registered(t)

(***************************** threads ************************************)
\* the step is a worker thread ending its exchange
IsWorkerStep ==
    \E t \in DOMAIN tasks : tasks[t].status = "running" /\ tasks'[t].status # "running"

\* the part of the module that belongs to the host thread: the four tables,
\* current_response and the configuration; all but the completion buffer
HostState(M) == IF M.is_some THEN [M EXCEPT !.global_queue = Queue_new] ELSE M

C25_ActiveRightAfterSubmit ==
    /\ [][Len(tasks') = Len(tasks) + 1 =>
            /\ last'.fn = "grip_request"
            /\ last'.ret = peek_id(Module.cancellations_handles)
            /\ \A t \in DOMAIN tasks : tasks'[t] = tasks[t]
            /\ tasks'[Len(tasks')].status = "running"
            /\ Module'.global_queue = Module.global_queue
            /\ invoked' = invoked]_vars
    /\ [](last.fn = "grip_request" /\ ~last.logged /\ ~panicked =>
            /\ grip_is_request_active(World, last.ret).last.ret = 1
            /\ \A t \in DOMAIN tasks :
                  ghost.req[t].handle = last.ret => ~Delivered(t) /\ Registered(t))

\* grip_request returned a handle after a backlog, its worker has finished since,
\* its record waits in the buffer, and no call was made in between
C25_Witness ==
    /\ last.fn = "grip_request"
    /\ ~last.logged
    /\ last.ret > Threshold
    /\ \E t \in DOMAIN tasks :
          /\ ghost.req[t].handle = last.ret
          /\ tasks[t].status = "finished"
          /\ Buffered(t)
          /\ ~Delivered(t)

(***************************** dot paths **********************************)
\* the positions that bound the pieces of a name: before it, its dots, after it
Cuts(name) == {0, Len(name) + 1} \cup {i \in DOMAIN name : name[i] = "."}

\* the k-th of these positions, counted from 0
Cut(name, k) ==
    CHOOSE c \in Cuts(name) : Cardinality({d \in Cuts(name) : d < c}) = k

\* the pieces of a name between its dots, in order
Pieces(name) ==
    [k \in 1..(Cardinality(Cuts(name)) - 1) |->
        SubSeq(name, Cut(name, k - 1) + 1, Cut(name, k) - 1)]

\* the value that lies in self under the keys, one object inside the other, the
\* last key innermost; None when an object or a key on the way is not there
RECURSIVE Under(_, _)
Under(self, keys) ==
    IF keys = <<>> THEN Some(self)
    ELSE LET outer == Under(self, SubSeq(keys, 1, Len(keys) - 1))
             key   == keys[Len(keys)]
         IN  IF outer # None /\ outer[1].tag = "object" /\ key \in DOMAIN outer[1].m
             THEN Some(outer[1].m[key])
             ELSE None

\* the result is the value found, or an error when there is none
Gives(result, found) ==
    IF found = None THEN ~result.ok ELSE result = Ok(found[1])

\* C26: for every value and name, dot_index_safe gives the value that lies under
\* the pieces of the name taken as keys, and an error (never a value) when a piece
\* is empty or when an object or a key on the way is missing; dot_index_safe_mut
\* gives the same; index_selective_safe(name, true) gives what dot_index_safe
\* gives, index_selective_safe(name, false) what lies under the whole name taken
\* as one key, dots included; and index_selective_safe_mut gives the same.
C26_DotPathLookup ==
    (last.fn = "index_selective_safe" /\ last.called) =>
        LET keys == Pieces(last.name)
            path == IF \E k \in DOMAIN keys : keys[k] = <<>>
                    THEN None
                    ELSE Under(last.self, keys)
        IN  /\ Gives(last.dot_index_safe, path)
            /\ last.dot_index_safe_mut = last.dot_index_safe
            /\ last.dot_notation => last.index_selective_safe = last.dot_index_safe
            /\ ~last.dot_notation =>
                  Gives(last.index_selective_safe, Under(last.self, <<last.name>>))
            /\ last.index_selective_safe_mut = last.index_selective_safe

\* the name a.b was looked up without dot notation in an object that holds the key
\* "a.b" and, under "a", an object with the key "b": the literal key was found, and
\* the dot path leads elsewhere
C26_Witness ==
    /\ last.fn = "index_selective_safe"
    /\ last.called
    /\ last.name = <<"a", ".", "b">>
    /\ ~last.dot_notation
    /\ last.index_selective_safe = Ok(Object(EmptyFcn))
    /\ last.dot_index_safe = Ok(Number)

(***************************** string copies ******************************)
\* the string a reader of C strings finds in dest: the cells before the first NUL
CString(dest) ==
    LET nuls == {i \in DOMAIN dest : dest[i] = "NUL"}
    IN  IF nuls = {} THEN dest
        ELSE SubSeq(dest, 1, (CHOOSE i \in nuls : \A j \in nuls : i <= j) - 1)

\* a copy was made, and the buffer had room for the terminator at dest[size]
Copied == last.fn = "copy_unsafe_string" /\ last.called /\ ~last.copy.overrun

\* with a negative size the logger is called once with the caller's amx, nothing
\* is written and the enclosing function returns 0
NegativeSizeRefused ==
    (Copied /\ last.size < 0) =>
        /\ last.copy.logged = <<AMX>>
        /\ last.copy.dest = FreshDest
        /\ last.copy.returned
        /\ last.copy.value = 0

C28_TokenRemovedBeforeHandler ==
    Ticked =>
        \A i \in DOMAIN last.seen :
            /\ last.seen[i].active = 0
            /\ last.seen[i].cancel_own \in {None, Some(0)}

\* the tasks whose popped record holds the outcome RequestCancelled
PoppedCancelled ==
    {last.popped[i].task : i \in {j \in DOMAIN last.popped :
                                     last.popped[j].outcome = "RequestCancelled"}}

\* C29: in every tick, no handler that ran saw grip_get_response_state return 1:
\* each saw 2, 3 or 4; a record popped with the outcome RequestCancelled had no
\* handler run for it; and no request whose token a cancel removed before the
\* delivery has had its handler invoked.
C29_NoHandlerSeesCancelled ==
    /\ Ticked =>
          /\ \A i \in DOMAIN last.seen : last.seen[i].state \in {2, 3, 4}
          /\ \A i \in DOMAIN last.seen : last.seen[i].task \notin PoppedCancelled
    /\ \A t \in DOMAIN tasks : Suppressed(t) => ~Delivered(t)

\* a tick popped two records: one with the outcome RequestCancelled, of a request
\* cancelled while its worker ran, which it dropped, and one whose handler ran
C29_Witness ==
    /\ Ticked
    /\ Len(last.popped) = 2
    /\ last.calls = 1
    /\ \E t \in PoppedCancelled :
          /\ ghost.req[t].cancel = "before_resolve"
          /\ ~Delivered(t)

\* C30: the process is never terminated: no call made so far has aborted it, and
\* in every state the next call of grip_process_request comes back, whatever
\* requests were submitted without a handler.
C30_NullHandlerNeverAborts ==
    /\ ~panicked
    /\ \A scripts \in TickScripts : ~grip_process_request(World, scripts).panicked
(***************************** the closure's bookkeeping *******************)
\* the record the next tick pops first, when its token is registered
NextDelivered ==
    IF Module.global_queue.responses # <<>> /\
       TokenRegistered(Module, Head(Module.global_queue.responses).task)
    THEN {Head(Module.global_queue.responses)}
    ELSE {}

\* the world in which the closure of rec is called: rec is popped
Popped == [World EXCEPT !.Module.global_queue.responses = Tail(@)]

\* the world when the handler of rec returns, before the closure goes on
HandlerReturned(rec, script) ==
    handler([Popped EXCEPT !.Module.current_response = Some(rec.outcome)],
            rec.task, script)

\* the tables of M other than the table of tokens
OtherTables(M) == [tb \in Tables \ {"cancellations"} |-> TableOf(M, tb)]

\* between the handler's return and the closure's end: of the table of tokens
\* only the entry of task t is gone (if it was still there), and the other
\* tables are as they were
OnlyOwnEntryGone(before, after, t) ==
    LET b == before.Module.cancellations_handles
        a == after.Module.cancellations_handles
    IN  /\ a.inner = Restrict(b.inner, {id \in DOMAIN b.inner :
                                            b.inner[id] # RequestCancellation(t)})
        /\ a.run = b.run
        /\ a.counter = b.counter
        /\ OtherTables(after.Module) = OtherTables(before.Module)

\* C31: delivering the completion of a request removes from the cancellation
\* table only that request's own entry; every other token, and the tables of
\* bodies, option sets and JSON values, are left as the handler left them,
\* whatever was submitted or cancelled before the delivery or inside the handler
C31_OnlyOwnEntryRemoved ==
    \A rec \in NextDelivered : \A script \in InsideScripts(World) :
        OnlyOwnEntryGone(HandlerReturned(rec, script),
                         completion(Popped, rec.task, rec.outcome, script),
                         rec.task)

\* a tick has delivered a request while the token of another request was
\* registered, and of the two only the other's token is left; the tables of
\* bodies, option sets and JSON values hold entries
C31_Witness ==
    /\ last.fn = "grip_process_request"
    /\ \E i \in DOMAIN last.seen : \E u \in DOMAIN tasks :
          /\ u # last.seen[i].task
          /\ ~TokenRegistered(Module, last.seen[i].task)
          /\ TokenRegistered(Module, u)
          /\ ghost.req[u].handle > ghost.req[last.seen[i].task].handle
    /\ \A tb \in Tables : len(TableOf(Module, tb)) > 0

(***************************** the current response ***********************)
\* the outcome of the record of task t that the last tick popped
PoppedOutcome(t) ==
    LET i == CHOOSE i \in DOMAIN last.popped : last.popped[i].task = t
    IN  last.popped[i].outcome

\* C32: outside a handler (before the first tick, between ticks, after a tick)
\* grip_get_response_state logs an error and returns 0; a handler is told the
\* outcome of the request being delivered (3 success, 4 timeout, 2 other error)
\* from its first call to its return, also when it ticks itself
C32_StateExactlyInHandler ==
    /\ grip_get_response_state(World).last.logged
    /\ grip_get_response_state(World).last.ret = 0
    /\ last.fn = "grip_process_request" =>
          \A i \in DOMAIN last.seen :
              /\ last.seen[i].state \in {3, 4, 2}
              /\ last.seen[i].state = response_state(PoppedOutcome(last.seen[i].task))
              /\ last.seen[i].state_end = last.seen[i].state

(***************************** the values 0 and -1 ************************)
\* the calls that create an entry, each with the table it creates it in and
\* the world it leaves
CreatingCalls ==
    {[tb |-> "bodies", w |-> grip_body_from_string(World, str)] : str \in BodyStrings}
    \cup {[tb |-> "options", w |-> grip_create_default_options(World, timeout)] :
              timeout \in Timeouts}
    \cup {[tb |-> "json", w |-> grip_json_init_object(World)]}
    \cup {[tb |-> "cancellations", w |-> grip_request(World, args)] :
              args \in RequestArgsAll}

====
